---- MODULE Spec2Model ----
(***************************************************************************)
(* Gesture-log analysis: analyze_gesture_log.py and smart_analyzer.py.    *)
(*                                                                         *)
(* A log file is a sequence of lines.  A line is kept as the pieces the    *)
(* extraction grammar looks at: whether it holds the channel marker, the   *)
(* label text, whether the success glyph follows the label, and the        *)
(* key:value tokens that follow, each value a sequence of characters.      *)
(* Numbers are fixed point: a float f is the integer f * 40000, so that    *)
(* the mean of four lengths (a division by 4.0) stays an integer.          *)
(***************************************************************************)
EXTENDS Integers, Sequences, FiniteSets, TLC

(***************************************************************************)
(* Bounds of the model.                                                    *)
(***************************************************************************)
\* longest log file, in lines
MaxLines == 3
\* scores of the generated score tuples range over -MaxScore .. MaxScore
MaxScore == 1
\* the short runs of the generated batches have at most MaxExtra lines
MaxExtra == 1
\* the batches of several labels have at most MaxCopies lines of a label
MaxCopies == 2
\* longest terminal file of the watcher, in lines
MaxTermLines == 3
\* read-error diagnostics of the watcher after which no further poll is followed
MaxReadErrors == 2
\* most marker lines in the file the workflow monitors
MaxMarkers == 4
\* values of --threshold range over 1 .. MaxThreshold
MaxThreshold == 2
\* analyses of the workflow after which no further poll is followed
MaxAnalyses == 3

(***************************************************************************)
(* Constants of the program.                                               *)
(***************************************************************************)
\* a distance group is checked when it has more samples than this
GroupThreshold == 5
\* the watcher starts an analysis when its counter is a multiple of this
AnalyzeEvery == 20

(***************************************************************************)
(* Characters and numeric tokens.                                          *)
(***************************************************************************)
DigitChars == <<"0", "1", "2", "3", "4", "5", "6", "7", "8", "9">>

IsDigit(c) == \E d \in 1..10 : DigitChars[d] = c

DigitVal(c) == (CHOOSE d \in 1..10 : DigitChars[d] = c) - 1

RECURSIVE DigitsVal(_)
DigitsVal(s) ==
    IF s = <<>> THEN 0
    ELSE DigitsVal(SubSeq(s, 1, Len(s) - 1)) * 10 + DigitVal(s[Len(s)])

RECURSIVE Pow10(_)
Pow10(n) == IF n = 0 THEN 1 ELSE 10 * Pow10(n - 1)

\* the longest prefix of s whose characters all satisfy the class Cls
RECURSIVE LongestPrefix(_, _)
LongestPrefix(s, Cls) ==
    IF s = <<>> \/ s[1] \notin Cls THEN <<>>
    ELSE <<s[1]>> \o LongestPrefix(Tail(s), Cls)

DigitSet == {DigitChars[d] : d \in 1..10}

\* what the group [\d.]+ captures at the start of s (empty: no match here)
NumCapture(s) == LongestPrefix(s, DigitSet \cup {"."})

\* what the group -?\d+ captures at the start of s (empty: no match here)
IntCapture(s) ==
    IF s # <<>> /\ s[1] = "-"
    THEN (IF LongestPrefix(Tail(s), DigitSet) = <<>> THEN <<>>
          ELSE <<"-">> \o LongestPrefix(Tail(s), DigitSet))
    ELSE LongestPrefix(s, DigitSet)

Unsigned(tok) == IF tok # <<>> /\ tok[1] = "-" THEN Tail(tok) ELSE tok

DotCount(s) == Cardinality({i \in 1..Len(s) : s[i] = "."})

\* float(tok) returns a number: the captured text is digits with at most
\* one point and at least one digit ('1.', '.5' are numbers; '.', '1.2.3'
\* raise ValueError)
FloatOK(tok) ==
    LET b == Unsigned(tok) IN
    /\ \A i \in 1..Len(b) : IsDigit(b[i]) \/ b[i] = "."
    /\ DotCount(b) <= 1
    /\ \E i \in 1..Len(b) : IsDigit(b[i])

\* float(tok) in fixed point (units of 1/40000, four decimals kept)
Float(tok) ==
    LET b      == Unsigned(tok)
        dot    == IF DotCount(b) = 0 THEN Len(b) + 1
                  ELSE CHOOSE i \in 1..Len(b) : b[i] = "."
        ip     == SubSeq(b, 1, dot - 1)
        fr     == SubSeq(b, dot + 1, Len(b))
        fr4    == IF Len(fr) > 4 THEN SubSeq(fr, 1, 4) ELSE fr
        mag    == 4 * (DigitsVal(ip) * 10000 + DigitsVal(fr4) * Pow10(4 - Len(fr4)))
    IN  IF tok # <<>> /\ tok[1] = "-" THEN 0 - mag ELSE mag

(***************************************************************************)
(* The extraction grammar (the regular expression `pattern`).              *)
(***************************************************************************)
\* the nine key:value fields, in the order the pattern fixes
NumKeys == <<"lenIdx", "lenMid", "lenRing", "lenLit", "gapIdxMid",
             "gapThumbIdx", "ratio_idx_mid", "ratio_ring_mid", "ratio_lit_mid">>

\* the five groups after the header 'score V/OK/Palm/Fist/Idx = '
score_cols == <<"score_v", "score_ok", "score_palm", "score_fist", "score_idx">>

\* the keys the pattern walks through: nine fields, then the score header
PatternKeys == NumKeys \o <<"score">>

\* (-?\d+)/(-?\d+)/.../(-?\d+) at the start of s, n groups: the captured
\* texts, or <<>> when the text does not match
RECURSIVE ScoreCapture(_, _)
ScoreCapture(s, n) ==
    LET c == IntCapture(s) IN
    IF c = <<>> THEN <<>>
    ELSE IF n = 1 THEN <<c>>
    ELSE IF Len(s) > Len(c) /\ s[Len(c) + 1] = "/"
         THEN LET rest == ScoreCapture(SubSeq(s, Len(c) + 2, Len(s)), n - 1)
              IN  IF rest = <<>> THEN <<>> ELSE <<c>> \o rest
         ELSE <<>>

\* token t is an occurrence of pattern key k that the pattern can match
TokenMatches(t, k) ==
    /\ t.key = k
    /\ IF k = "score" THEN ScoreCapture(t.val, 5) # <<>>
       ELSE NumCapture(t.val) # <<>>

\* what the named groups capture from token t, matched for key k
TokenGroups(t, k) ==
    IF k = "score"
    THEN LET c == ScoreCapture(t.val, 5)
         IN  [n \in {score_cols[i] : i \in 1..5} |->
                 c[CHOOSE i \in 1..5 : score_cols[i] = n]]
    ELSE [n \in {k} |-> NumCapture(t.val)]

NoMatch == [ok |-> FALSE, groupdict |-> [raw_label |-> ""]]

\* a pattern whose fields are optional: a key that is not found is skipped
\* and its groups read 0
RECURSIVE MatchFromLenient(_, _, _, _)
MatchFromLenient(toks, k, i, acc) ==
    IF k > Len(PatternKeys) THEN [ok |-> TRUE, groupdict |-> acc]
    ELSE LET key  == PatternKeys[k]
             cand == {j \in i..Len(toks) : TokenMatches(toks[j], key)}
             dflt == IF key = "score"
                     THEN [n \in {score_cols[c] : c \in 1..5} |-> <<"0">>]
                     ELSE [n \in {key} |-> <<"0">>]
         IN  IF cand = {} THEN MatchFromLenient(toks, k + 1, i, acc @@ dflt)
             ELSE LET j == CHOOSE x \in cand : \A y \in cand : x <= y
                  IN  MatchFromLenient(toks, k + 1, j + 1,
                                       acc @@ TokenGroups(toks[j], key))

\* the lazy '.*?' between two keys stops at the first occurrence of the next
\* key from which the rest of the pattern matches: with every later key free
\* to lie anywhere to the right, that is the first occurrence that matches
RECURSIVE MatchFrom(_, _, _, _)
MatchFrom(toks, k, i, acc) ==
    IF k > Len(PatternKeys) THEN [ok |-> TRUE, groupdict |-> acc]
    ELSE LET cand == {j \in i..Len(toks) : TokenMatches(toks[j], PatternKeys[k])}
         IN  IF cand = {} THEN NoMatch
             ELSE LET j == CHOOSE x \in cand : \A y \in cand : x <= y
                  IN  MatchFrom(toks, k + 1, j + 1,
                                acc @@ TokenGroups(toks[j], PatternKeys[k]))

\* re.search(pattern, line): the marker, the label up to the glyph, then the
\* fields in their fixed order
re_search(line) ==
    IF line.marker /\ line.glyph
    THEN MatchFrom(line.toks, 1, 1, [raw_label |-> line.label])
    ELSE NoMatch

\* a loop without the marker test: every line is a candidate
HasMarkerAlways(line) == TRUE

\* '[HandGestureDebug]' in line
HasMarker(line) == line.marker

(***************************************************************************)
(* Log lines.  The labels are the Chinese label texts of the log, written  *)
(* here in pinyin: "quantou" fist, "shouzhang zhangkai" open palm,         *)
(* "OK shoushi" 'OK' + gesture, "shizhi" index finger, "Vshoushi" 'V' +    *)
(* gesture, "V shoushi" the same with a space, "weizhi" unknown.           *)
(***************************************************************************)
Tok(k, v) == [key |-> k, val |-> v]

\* the text of a small integer
IntText(n) ==
    IF n < 0 THEN <<"-", DigitChars[(0 - n) + 1]>> ELSE <<DigitChars[n + 1]>>

\* the text 'a/b/c/d/e' of five scores
ScoreText(sc) ==
    IntText(sc[1]) \o <<"/">> \o IntText(sc[2]) \o <<"/">> \o IntText(sc[3])
        \o <<"/">> \o IntText(sc[4]) \o <<"/">> \o IntText(sc[5])

\* a line in the canonical template: marker, label, glyph, four lengths,
\* two gaps, three ratios, the score tuple
MkLine(label, lens, feats, scoreText) ==
    [marker |-> TRUE, label |-> label, glyph |-> TRUE,
     toks |-> << Tok("lenIdx", lens[1]), Tok("lenMid", lens[2]),
                 Tok("lenRing", lens[3]), Tok("lenLit", lens[4]),
                 Tok("gapIdxMid", feats[1]), Tok("gapThumbIdx", feats[2]),
                 Tok("ratio_idx_mid", feats[3]), Tok("ratio_ring_mid", feats[4]),
                 Tok("ratio_lit_mid", feats[5]), Tok("score", scoreText) >>]

\* lengths 0.10 / 0.12 / 0.09 / 0.08
LensV == << <<"0", ".", "1", "0">>, <<"0", ".", "1", "2">>,
            <<"0", ".", "0", "9">>, <<"0", ".", "0", "8">> >>

\* lengths 0.20 / 0.24 / 0.18 / 0.16
LensNear == << <<"0", ".", "2", "0">>, <<"0", ".", "2", "4">>,
               <<"0", ".", "1", "8">>, <<"0", ".", "1", "6">> >>

\* lengths 0.15 / 0.16 / 0.14 / 0.13
LensMid == << <<"0", ".", "1", "5">>, <<"0", ".", "1", "6">>,
              <<"0", ".", "1", "4">>, <<"0", ".", "1", "3">> >>

\* gaps 0.02 / 0.05, ratios 0.83 / 0.75 / 0.66
FeatsA == << <<"0", ".", "0", "2">>, <<"0", ".", "0", "5">>,
             <<"0", ".", "8", "3">>, <<"0", ".", "7", "5">>,
             <<"0", ".", "6", "6">> >>

\* the line of the single-line scenario: label 'V' + gesture, scores 5/1/0/-1/2
LineV == MkLine("Vshoushi", LensV, FeatsA, ScoreText(<<5, 1, 0, -1, 2>>))

\* a fist line further from the cut points, its three best scores tied
LineFist == MkLine("quantou", LensNear, FeatsA, ScoreText(<<1, 4, 4, 0, 4>>))

\* a line with a label outside the table and only negative scores
LineOther == MkLine("abc", LensMid, FeatsA, ScoreText(<<-2, -1, -1, -3, -1>>))

\* line l with the token at position i removed
DropTok(l, i) ==
    [l EXCEPT !.toks = SubSeq(l.toks, 1, i - 1) \o SubSeq(l.toks, i + 1, Len(l.toks))]

\* line l with the value of the token at position i replaced
SetTok(l, i, v) == [l EXCEPT !.toks[i].val = v]

\* the same text without the channel marker
NoMarkerLine(l) == [l EXCEPT !.marker = FALSE]

\* a candidate line that lacks lenRing
LineMissing == DropTok(LineV, 3)

\* a candidate line whose gapIdxMid reads 1.2.3
LineBadNumber == SetTok(LineV, 5, <<"1", ".", "2", ".", "3">>)

\* a candidate line in the template whose middle-finger length reads 0.0
LineZeroMid == SetTok(LineOther, 2, <<"0", ".", "0">>)

\* the lines the files of the main specification are made of
LineSet ==
    {LineV, LineFist, NoMarkerLine(LineV), LineMissing, LineBadNumber,
     LineZeroMid}

\* every sequence over S of length at most n
SeqsUpTo(S, n) == UNION {[1..k -> S] : k \in 0..n}

(***************************************************************************)
(* Extraction of one line.                                                 *)
(***************************************************************************)
NumericKeys == {NumKeys[i] : i \in 1..Len(NumKeys)} \cup {score_cols[i] : i \in 1..5}

\* float(record[key]) succeeds for every key but raw_label
ConvertOK(groupdict) == \A k \in NumericKeys : FloatOK(groupdict[k])

\* the record after 'record[key] = float(record[key])' for every numeric key
ConvertRecord(groupdict) ==
    [k \in DOMAIN groupdict |->
        IF k = "raw_label" THEN groupdict[k] ELSE Float(groupdict[k])]

(***************************************************************************)
(* Feature derivation.                                                     *)
(***************************************************************************)
Gestures == <<"V", "OK", "Palm", "Fist", "Idx">>

GestureSet == {Gestures[i] : i \in 1..5}

\* score_map: score column -> gesture name
score_map(col) == Gestures[CHOOSE i \in 1..5 : score_cols[i] = col]

\* scale = (lenIdx + lenMid + lenRing + lenLit) / 4.0
Scale(r) == (r["lenIdx"] + r["lenMid"] + r["lenRing"] + r["lenLit"]) \div 4

\* the last column holding the row's maximum
IdxMaxLast(r) ==
    LET i == CHOOSE i \in 1..5 :
                 /\ \A j \in 1..5 : r[score_cols[j]] <= r[score_cols[i]]
                 /\ \A j \in (i + 1)..5 : r[score_cols[j]] < r[score_cols[i]]
    IN  score_cols[i]

\* DataFrame.idxmax(axis=1) over score_cols: the first column holding the
\* row's maximum
IdxMax(r) ==
    LET i == CHOOSE i \in 1..5 :
                 /\ \A j \in 1..5 : r[score_cols[j]] <= r[score_cols[i]]
                 /\ \A j \in 1..(i - 1) : r[score_cols[j]] < r[score_cols[i]]
    IN  score_cols[i]

pred_by_score(r) == score_map(IdxMax(r))

\* label_map of add_derived_features
label_map ==
    ("quantou" :> "Fist_label") @@ ("shouzhang zhangkai" :> "Palm_label") @@
    ("OK shoushi" :> "OK_label") @@ ("shizhi" :> "Idx_label") @@
    ("weizhi" :> "Unknown_label") @@ ("Vshoushi" :> "V_label") @@
    ("V shoushi" :> "V_label")

\* LABEL_MAP of SmartGestureAnalyzer
LABEL_MAP ==
    ("quantou" :> "Fist") @@ ("shouzhang zhangkai" :> "Palm") @@
    ("OK shoushi" :> "OK") @@ ("shizhi" :> "Idx") @@
    ("Vshoushi" :> "V") @@ ("V shoushi" :> "V") @@ ("weizhi" :> "Unknown")

\* Series.map(table) without the fillna: a text outside the table stays NaN
MapNoFillna(table, raw, dflt) == IF raw \in DOMAIN table THEN table[raw] ELSE "NaN"

\* Series.map(table).fillna(dflt)
MapFillna(table, raw, dflt) == IF raw \in DOMAIN table THEN table[raw] ELSE dflt

raw_label_norm(raw) == MapFillna(label_map, raw, "Unknown_label")

label_norm(raw) == MapFillna(LABEL_MAP, raw, "Unknown")

\* the values of s in ascending order
RECURSIVE SortAsc(_)
SortAsc(s) ==
    IF s = <<>> THEN <<>>
    ELSE LET i == CHOOSE i \in 1..Len(s) : \A j \in 1..Len(s) : s[i] <= s[j]
         IN  <<s[i]>> \o SortAsc(SubSeq(s, 1, i - 1) \o SubSeq(s, i + 1, Len(s)))

\* Series.quantile(pct / 100), linear interpolation, times 100: with n values
\* the position is (n - 1) * pct / 100, and the result lies that far between
\* the two order statistics around it
Quantile100(vals, pct) ==
    LET srt == SortAsc(vals)
        n   == Len(vals)
        pos == (n - 1) * pct
        lo  == (pos \div 100) + 1
        hi  == IF lo < n THEN lo + 1 ELSE lo
    IN  100 * srt[lo] + (pos % 100) * (srt[hi] - srt[lo])

Scales(rows) == [i \in 1..Len(rows) |-> Scale(rows[i])]

q33x100(rows) == Quantile100(Scales(rows), 33)

q66x100(rows) == Quantile100(Scales(rows), 66)

\* pd.cut refuses bins = [-inf, q33, q66, inf] when two edges coincide
\* ("Bin edges must be unique")
BinsUnique(rows) == q33x100(rows) # q66x100(rows)

\* the bins labelled from the other end
CutReversed(scale, q33, q66) ==
    IF 100 * scale <= q33 THEN "near"
    ELSE IF 100 * scale <= q66 THEN "mid"
    ELSE "far"

\* pd.cut(scale, bins=[-inf, q33, q66, inf], labels=[far, mid, near]): the
\* intervals are closed on the right (right=True is the default)
Cut(scale, q33, q66) ==
    IF 100 * scale <= q33 THEN "far"
    ELSE IF 100 * scale <= q66 THEN "mid"
    ELSE "near"

\* gesture_label_map.get(gt_gesture, 'Unknown_label')
expected_label(gt) ==
    IF gt \in GestureSet THEN
        CASE gt = "V" -> "V_label" [] gt = "OK" -> "OK_label"
          [] gt = "Palm" -> "Palm_label" [] gt = "Fist" -> "Fist_label"
          [] gt = "Idx" -> "Idx_label"
    ELSE "Unknown_label"

\* the columns add_derived_features adds to row r of the batch rows; 'if
\* gt_gesture:' is false for None and for the empty string
DerivedRow(r, rows, gt) ==
    LET base == r @@ [scale |-> Scale(r),
                      pred_by_score |-> pred_by_score(r),
                      raw_label_norm |-> raw_label_norm(r["raw_label"]),
                      scale_group |-> Cut(Scale(r), q33x100(rows), q66x100(rows))]
    IN  IF gt \notin {"None", ""}
        THEN base @@ [gt_gesture |-> gt,
                      is_correct_by_score |-> (pred_by_score(r) = gt),
                      is_correct_by_raw_label |->
                          (raw_label_norm(r["raw_label"]) = expected_label(gt))]
        ELSE base

\* a derivation that replaces the four lengths by their mean
SmartDerivedRowInPlace(r, rows, dominant) ==
    [k \in DOMAIN r |->
        IF k \in {"lenIdx", "lenMid", "lenRing", "lenLit"} THEN Scale(r) ELSE r[k]]
    @@ [scale |-> Scale(r),
        pred_by_score |-> pred_by_score(r),
        scale_group |-> Cut(Scale(r), q33x100(rows), q66x100(rows)),
        gt_gesture |-> dominant,
        is_correct |-> (pred_by_score(r) = dominant)]

\* the columns SmartGestureAnalyzer._add_derived_features adds to row r
SmartDerivedRow(r, rows, dominant) ==
    LET base == r @@ [scale |-> Scale(r),
                      pred_by_score |-> pred_by_score(r),
                      scale_group |-> Cut(Scale(r), q33x100(rows), q66x100(rows))]
    IN  IF dominant # "Mixed"
        THEN base @@ [gt_gesture |-> dominant,
                      is_correct |-> (pred_by_score(r) = dominant)]
        ELSE base

\* the labels value_counts() may put first: the most frequent ones (the
\* order among equal counts is not fixed by the program)
MostFrequent(labels) ==
    LET count(g) == Cardinality({i \in 1..Len(labels) : labels[i] = g})
        present  == {labels[i] : i \in 1..Len(labels)}
    IN  {g \in present : \A h \in present : count(h) <= count(g)}

\* the non-Unknown normalised labels of the batch, in row order
RECURSIVE ValidLabels(_)
ValidLabels(rows) ==
    IF rows = <<>> THEN <<>>
    ELSE LET l == label_norm(rows[1]["raw_label"])
         IN  (IF l # "Unknown" THEN <<l>> ELSE <<>>) \o ValidLabels(Tail(rows))

\* the values _detect_dominant_gesture may return for the batch
DominantChoices(rows) ==
    LET valid == ValidLabels(rows) IN
    IF Len(valid) = 0 THEN {"Unknown"}
    ELSE {IF 10 * Cardinality({i \in 1..Len(valid) : valid[i] = g}) > 4 * Len(valid)
          THEN g ELSE "Mixed" : g \in MostFrequent(valid)}

(***************************************************************************)
(* Batches of one gesture at three distances.                              *)
(***************************************************************************)
\* gaps 0.05 / 0.07, ratios 0.50 / 0.75 / 0.66
FeatsB == << <<"0", ".", "0", "5">>, <<"0", ".", "0", "7">>,
             <<"0", ".", "5", "0">>, <<"0", ".", "7", "5">>,
             <<"0", ".", "6", "6">> >>

\* gaps 0.04 / 0.05, ratios 0.83 / 0.90 / 0.66
FeatsC == << <<"0", ".", "0", "4">>, <<"0", ".", "0", "5">>,
             <<"0", ".", "8", "3">>, <<"0", ".", "9", "0">>,
             <<"0", ".", "6", "6">> >>

\* the score tuple whose only positive score is that of gesture g
TopScore(g) == ScoreText([i \in 1..5 |-> IF Gestures[i] = g THEN 5 ELSE 0])

\* a label text the tables map to gesture g
LabelOf(g) == CHOOSE l \in DOMAIN LABEL_MAP : LABEL_MAP[l] = g

\* n times the line l
Repeat(l, n) == [i \in 1..n |-> l]

\* a batch of one gesture g at three distances: size[k] lines with the
\* lengths lens[k], the first right[k] of them scored for g, the others
\* scored for the fist with the features wrong
RunFile(g, wrong, size, right) ==
    LET lens  == <<LensV, LensMid, LensNear>>
        feats == <<FeatsA, FeatsA, FeatsC>>
        run(k) == Repeat(MkLine(LabelOf(g), lens[k], feats[k], TopScore(g)), right[k])
                  \o Repeat(MkLine(LabelOf(g), lens[k], wrong, TopScore("Fist")),
                            size[k] - right[k])
    IN  run(1) \o run(2) \o run(3)

\* the sizes of a run: few lines, or as many as a group needs to be checked
\* and one less
RunSizes == (0..MaxExtra) \cup {GroupThreshold, GroupThreshold + 1}

\* how many lines of a run of n are scored for the gesture: none, all, or
\* about half of a group that is checked (accuracy just below 0.5, and 0.5)
RightCounts(n) == {c \in {0, 2, 3, n} : c <= n}

\* the sizes of the three runs, each with the number of its lines scored
\* for the gesture
RunShapes ==
    {sr \in [1..3 -> RunSizes \X (0..(GroupThreshold + 1))] :
        \A k \in 1..3 : sr[k][2] \in RightCounts(sr[k][1])}

\* batches of 20 samples with 17 and with 18 correct (accuracy 0.85 and
\* 0.90) and no issue, and batches of the gestures Palm and Idx whose far
\* group is checked
EdgeFiles ==
    {RunFile("V", FeatsA, <<10, 10, 0>>, <<10, c, 0>>) : c \in {7, 8}}
    \cup {RunFile(g, FeatsB, <<GroupThreshold + 1, 0, 3>>, <<2, 0, c>>) :
              g \in {"Palm", "Idx"}, c \in {0, 3}}

RunFiles ==
    {RunFile(p[1], p[2], [k \in 1..3 |-> sr[k][1]], [k \in 1..3 |-> sr[k][2]]) :
        p \in {<<"V", FeatsA>>, <<"V", FeatsB>>, <<"OK", FeatsB>>},
        sr \in RunShapes}
    \cup EdgeFiles

(***************************************************************************)
(* Diagnosis and recommendations of SmartGestureAnalyzer.  A mean is kept  *)
(* as the fraction sum / count, and two means are compared by cross        *)
(* multiplication.  The formatted numbers inside description texts are     *)
(* left out.                                                               *)
(***************************************************************************)
\* 'not self.dominant_gesture or self.dominant_gesture == 'Mixed''
NoDominantNever(d) == FALSE

NoDominant(d) == d \in {"None", "", "Mixed"}

\* 'col in self.df.columns'
HasColumn(rows, col) == rows # <<>> /\ col \in DOMAIN rows[1]

\* df[col] as a sequence
Column(rows, col) == [i \in 1..Len(rows) |-> rows[i][col]]

RECURSIVE Sum(_)
Sum(s) == IF s = <<>> THEN 0 ELSE s[1] + Sum(Tail(s))

\* the number of rows with is_correct true
CorrectCount(rows) == Cardinality({i \in 1..Len(rows) : rows[i]["is_correct"]})

\* Series.mean(): sum over count
Mean(sum, count) == [num |-> sum, den |-> count]

\* df[df['scale_group'] == group]
GroupRows(rows, group) == SelectSeq(rows, LAMBDA r : r["scale_group"] = group)

\* far_data[far_data['is_correct'] == True]
CorrectRows(rows) == SelectSeq(rows, LAMBDA r : r["is_correct"])

\* df[df['is_correct'] == False], an empty frame without the column
WrongRows(rows) ==
    IF HasColumn(rows, "is_correct")
    THEN SelectSeq(rows, LAMBDA r : ~r["is_correct"])
    ELSE <<>>

\* df[df['pred_by_score'] == dominant_gesture]
GestureRows(rows, dominant) ==
    SelectSeq(rows, LAMBDA r : r["pred_by_score"] = dominant)

\* overall_acc <= 0.7
LowOverallOrEqual(correct, n) == 10 * correct <= 7 * n

\* overall_acc < 0.7
LowOverall(correct, n) == 10 * correct < 7 * n

\* len(group_df) >= 5
BigGroupFrom5(n) == n >= GroupThreshold

\* len(group_df) > 5
BigGroup(n) == n > GroupThreshold

\* acc < 0.5
LowGroup(correct, n) == 2 * correct < n

\* 30% of the mean over the wrong samples
DriftOfWrong(cs, cn, ws, wn) ==
    LET d == cs * wn - ws * cn
    IN  cn > 0 /\ 10 * (IF d < 0 THEN 0 - d ELSE d) > 3 * ws * cn

\* abs(correct_mean - wrong_mean) > correct_mean * 0.3, the means being
\* cs / cn and ws / wn with wn > 0; the mean of no sample is NaN, and a
\* comparison with NaN is false
Drift(cs, cn, ws, wn) ==
    LET d == cs * wn - ws * cn
    IN  cn > 0 /\ 10 * (IF d < 0 THEN 0 - d ELSE d) > 3 * cs * wn

MixedIssue ==
    [type |-> "hunhe shoushi",
     description |-> "rizhi baohan duozhong shoushi",
     severity |-> "info"]

OverallIssue(correct, n) ==
    [type |-> "zhengti zhunquelv di",
     description |-> "zhengti zhunquelv jin",
     severity |-> "high",
     metric |-> "overall_accuracy",
     value |-> Mean(correct, n)]

groups == <<"far", "mid", "near">>

\* f'{group}zu zhunquelv guodi'
GroupIssueType(group) ==
    CASE group = "far" -> "far zu zhunquelv guodi"
      [] group = "mid" -> "mid zu zhunquelv guodi"
      [] group = "near" -> "near zu zhunquelv guodi"

\* f'{group}_accuracy'
GroupMetric(group) ==
    CASE group = "far" -> "far_accuracy"
      [] group = "mid" -> "mid_accuracy"
      [] group = "near" -> "near_accuracy"

GroupIssue(group, correct, n) ==
    [type |-> GroupIssueType(group),
     description |-> "julizu zhunquelv jin",
     severity |-> "high",
     metric |-> GroupMetric(group),
     value |-> Mean(correct, n),
     distance_group |-> group]

key_features == <<"gapIdxMid", "gapThumbIdx", "ratio_idx_mid", "ratio_ring_mid">>

\* f'{feat}tezheng chayi da'
FeatureIssueType(feat) ==
    CASE feat = "gapIdxMid" -> "gapIdxMid tezheng chayi da"
      [] feat = "gapThumbIdx" -> "gapThumbIdx tezheng chayi da"
      [] feat = "ratio_idx_mid" -> "ratio_idx_mid tezheng chayi da"
      [] feat = "ratio_ring_mid" -> "ratio_ring_mid tezheng chayi da"

FeatureIssue(feat, correct_mean, wrong_mean) ==
    [type |-> FeatureIssueType(feat),
     description |-> "cuowu yangben yu zhengque yangben chayi",
     severity |-> "medium",
     metric |-> feat,
     correct_mean |-> correct_mean,
     wrong_mean |-> wrong_mean]

\* the group checks of _diagnose_issues, for groups[k] and the groups after it
RECURSIVE GroupIssues(_, _)
GroupIssues(rows, k) ==
    IF k > Len(groups) THEN <<>>
    ELSE LET group_df == GroupRows(rows, groups[k])
             n        == Len(group_df)
             correct  == CorrectCount(group_df)
         IN  (IF BigGroup(n) /\ LowGroup(correct, n)
              THEN <<GroupIssue(groups[k], correct, n)>> ELSE <<>>)
             \o GroupIssues(rows, k + 1)

\* the block under 'if 'is_correct' in self.df.columns'
AccuracyIssues(rows) ==
    IF HasColumn(rows, "is_correct")
    THEN (IF LowOverall(CorrectCount(rows), Len(rows))
          THEN <<OverallIssue(CorrectCount(rows), Len(rows))>> ELSE <<>>)
         \o GroupIssues(rows, 1)
    ELSE <<>>

\* the loop over key_features, for key_features[k] and the features after it
RECURSIVE FeatureIssues(_, _, _, _)
FeatureIssues(rows, gesture_data, wrong_data, k) ==
    IF k > Len(key_features) THEN <<>>
    ELSE LET feat == key_features[k]
             cs   == Sum(Column(gesture_data, feat))
             ws   == Sum(Column(wrong_data, feat))
         IN  (IF HasColumn(rows, feat)
                 /\ Drift(cs, Len(gesture_data), ws, Len(wrong_data))
              THEN <<FeatureIssue(feat, Mean(cs, Len(gesture_data)),
                                  Mean(ws, Len(wrong_data)))>>
              ELSE <<>>)
             \o FeatureIssues(rows, gesture_data, wrong_data, k + 1)

\* the list _diagnose_issues leaves in self.issues
DiagnoseIssues(rows, dominant) ==
    IF NoDominant(dominant) THEN <<MixedIssue>>
    ELSE AccuracyIssues(rows)
         \o (IF Len(WrongRows(rows)) > 0
             THEN FeatureIssues(rows, GestureRows(rows, dominant), WrongRows(rows), 1)
             ELSE <<>>)

\* a number formatted with ':.3f', in thousandths; q100 is the number in
\* units of 1/4000000
Fmt3(q100) == (q100 + 2000) \div 4000

\* data[feat].quantile(pct / 100) as the snippet prints it; the quantile of
\* an empty column is NaN
FeatureQuantile(data, feat, pct) ==
    IF data = <<>> THEN "nan" ELSE Fmt3(Quantile100(Column(data, feat), pct))

\* _generate_threshold_recommendation
ThresholdRecommendation(gesture, data, distance_group) ==
    LET rec == [priority |-> "high",
                category |-> "yuzhi tiaozheng",
                description |-> "youhua shoushi zai julidu de shibie",
                gesture |-> gesture,
                distance_group |-> distance_group,
                swift_code |-> <<>>]
    IN  IF gesture = "V"
        THEN [rec EXCEPT !.swift_code =
                  <<[struct |-> "VThreshold",
                     indexMiddleGapMin |-> FeatureQuantile(data, "gapIdxMid", 10),
                     indexToMiddleRatioMin |->
                         FeatureQuantile(data, "ratio_idx_mid", 10),
                     ringToMiddleRatioMax |->
                         FeatureQuantile(data, "ratio_ring_mid", 90)]>>]
             @@ [action |-> "xiugai VThreshold"]
        ELSE IF gesture = "OK"
        THEN [rec EXCEPT !.swift_code =
                  <<[struct |-> "OKThreshold",
                     thumbIndexGapMax |-> FeatureQuantile(data, "gapThumbIdx", 90)]>>]
        ELSE rec

RecalibrationRecommendation ==
    [priority |-> "high",
     category |-> "suanfa youhua",
     description |-> "zhengti shibielv xuyao tisheng",
     action |-> "shiyong tongji biaoding jiemian caiji gengduo shuju"]

EdgeCaseRecommendation ==
    [priority |-> "low",
     category |-> "xingneng youhua",
     description |-> "dangqian shibielv yida",
     action |-> "caiji gengduo bianjie yangben"]

\* a test that lets an empty subset through
HasCorrectAlways(correct) == TRUE

\* 'if len(correct_far) > 0'
HasCorrect(correct) == Len(correct) > 0

\* the branch of a low-group-accuracy issue, written out for far and for mid
GroupRecommendations(rows, dominant, group) ==
    LET data    == GroupRows(rows, group)
        correct == IF HasColumn(data, "is_correct") THEN CorrectRows(data) ELSE <<>>
    IN  IF HasCorrect(correct)
        THEN <<ThresholdRecommendation(dominant, correct, group)>>
        ELSE <<>>

\* a loop body that answers every issue with the recalibration
\* recommendation
IssueRecommendationsGeneric(issue, rows, dominant) == <<RecalibrationRecommendation>>

\* the body of 'for issue in self.issues': the if / elif chain tests the
\* issue type for the overall issue, for far and for mid; among the issue
\* types of the program, containing a group's type text is being that type
IssueRecommendations(issue, rows, dominant) ==
    IF issue.type = "zhengti zhunquelv di" THEN <<RecalibrationRecommendation>>
    ELSE IF issue.type = GroupIssueType("far")
    THEN GroupRecommendations(rows, dominant, "far")
    ELSE IF issue.type = GroupIssueType("mid")
    THEN GroupRecommendations(rows, dominant, "mid")
    ELSE <<>>

RECURSIVE LoopRecommendations(_, _, _)
LoopRecommendations(iss, rows, dominant) ==
    IF iss = <<>> THEN <<>>
    ELSE IssueRecommendations(iss[1], rows, dominant)
         \o LoopRecommendations(Tail(iss), rows, dominant)

\* overall_acc >= 0.85
HighOverallOrEqual(correct, n) == 100 * correct >= 85 * n

\* overall_acc > 0.85
HighOverall(correct, n) == 100 * correct > 85 * n

\* the list _generate_recommendations leaves in self.recommendations
GenerateRecommendations(rows, dominant, iss) ==
    IF NoDominant(dominant) THEN <<>>
    ELSE LET recs == LoopRecommendations(iss, rows, dominant)
         IN  IF Len(recs) = 0 /\ HasColumn(rows, "is_correct")
                /\ HighOverall(CorrectCount(rows), Len(rows))
             THEN <<EdgeCaseRecommendation>>
             ELSE recs

(***************************************************************************)
(* State.                                                                  *)
(***************************************************************************)
VARIABLES
    prog,             \* the script run: "analyze_gesture_log", "smart_analyzer",
                      \* "watch_live" or "auto_workflow"
    gt_gesture,       \* --gt-gesture, "None" when not given
    save_plots,       \* --save-plots / --no-plots
    exists,           \* os.path.exists(log file)
    dir_exists,       \* the output directory is there before the run
    file,             \* the lines of the log file
    pc,               \* where the run stands
    line_num,         \* lines consumed by the extraction loop
    records,          \* the list `records` of the extraction loop
    warnings,         \* line numbers of the parse-failure diagnostics printed
    df,               \* the DataFrame, a sequence of rows
    dominant_gesture, \* SmartGestureAnalyzer.dominant_gesture
    issues,           \* SmartGestureAnalyzer.issues
    recommendations,  \* SmartGestureAnalyzer.recommendations
    outputs,          \* what the run has created on disk
    error,            \* the error the run ended with, "none" if none
    exit_code         \* the process exit status, -1 while running

\* tools/watch_live.py: the module's globals and what it reads and writes
VARIABLES
    terminals,        \* the *.txt files of TERMINAL_DIR, each a sequence of lines
    latest,           \* the file of greatest st_mtime: find_latest_terminal()
    TERMINAL,         \* the file watched
    last_count,       \* marker lines counted so far
    last_pos,         \* the bookmark: where the next read starts
    LOG_OUT,          \* the lines of the output log
    read_errors,      \* read-error diagnostics printed (line 70)
    analyses,         \* runs of analyze_gesture_log.py started (lines 98, 121)
    wpc               \* "while" in the loop, "stopped" after KeyboardInterrupt

\* auto_workflow.py: the AutoWorkflow object and the file it monitors
VARIABLES
    log_file,         \* the monitored file: whether it exists, its marker lines
    threshold,        \* --threshold
    last_line_count,  \* AutoWorkflow.last_line_count
    analysis_count,   \* AutoWorkflow.analysis_count
    completed,        \* runs of smart_analyzer.py that returned 0 (line 115)
    fresh,            \* history: marker lines written since the last analysis
    progress,         \* the count last shown by the progress line (line 97)
    reported,         \* the count printed at stop (line 70), -1 before
    fpc               \* "while" in the loop, "stopped" after KeyboardInterrupt

watch == <<terminals, latest, TERMINAL, last_count, last_pos, LOG_OUT, read_errors,
           analyses, wpc>>

flow == <<log_file, threshold, last_line_count, analysis_count, completed, fresh,
          progress, reported, fpc>>

vars == <<prog, gt_gesture, save_plots, exists, dir_exists, file, pc, line_num, records,
          warnings, df, dominant_gesture, issues, recommendations, outputs, error,
          exit_code, watch, flow>>

args == <<prog, gt_gesture, save_plots, exists, dir_exists, file>>

\* the lists SmartGestureAnalyzer.__init__ creates empty
diag == <<issues, recommendations>>

AGL == "analyze_gesture_log"

SMART == "smart_analyzer"

WATCH == "watch_live"

FLOW == "auto_workflow"

\* no watcher in this run: the globals of tools/watch_live.py as lines 27-40
\* leave them, over a directory of empty files
NotWatching ==
    /\ terminals = [t \in 1..2 |-> <<>>]
    /\ latest = 1
    /\ TERMINAL = 1
    /\ last_count = 0
    /\ last_pos = 0
    /\ LOG_OUT = <<>>
    /\ read_errors = 0
    /\ analyses = 0
    /\ wpc = "while"

\* no workflow in this run: AutoWorkflow as __init__ leaves it (lines 41-50),
\* with the default threshold, over a file that is not there
NoWorkflow ==
    /\ log_file = [exists |-> FALSE, markers |-> 0]
    /\ threshold = 30
    /\ last_line_count = 0
    /\ analysis_count = 0
    /\ completed = 0
    /\ fresh = 0
    /\ progress = <<>>
    /\ reported = -1
    /\ fpc = "while"

\* choices of --gt-gesture, and its absence
GtChoices == {"None"} \cup GestureSet

AglConfigs == [prog : {AGL}, gt : GtChoices, plots : BOOLEAN, dir : BOOLEAN]

SmartConfigs == [prog : {SMART}, gt : {"None"}, plots : {TRUE}, dir : BOOLEAN]

\* os.makedirs(output_dir, exist_ok=True): what it adds to the disk
makedirs == IF dir_exists THEN {} ELSE {"output_dir"}

\* a run of one of the scripts on one of Files, which may not exist
InitWith(Files, Configs) ==
    /\ \E c \in Configs :
          /\ prog = c.prog /\ gt_gesture = c.gt
          /\ save_plots = c.plots /\ dir_exists = c.dir
    /\ exists \in BOOLEAN
    /\ \E f \in Files : file = IF exists THEN f ELSE <<>>
    /\ pc = "main"
    /\ line_num = 0
    /\ records = <<>>
    /\ warnings = <<>>
    /\ df = <<>>
    /\ dominant_gesture = "None"
    /\ issues = <<>>
    /\ recommendations = <<>>
    /\ outputs = {}
    /\ error = "none"
    /\ exit_code = -1
    /\ NotWatching
    /\ NoWorkflow

Init == InitWith(SeqsUpTo(LineSet, MaxLines), AglConfigs \cup SmartConfigs)

\* an error path that reports the error and leaves with status 0
FailQuiet(err) ==
    /\ pc' = "exit"
    /\ error' = err
    /\ exit_code' = 0

\* main's 'except Exception': report, sys.exit(1)
Fail(err) ==
    /\ pc' = "exit"
    /\ error' = err
    /\ exit_code' = 1

(***************************************************************************)
(* analyze_gesture_log.py                                                  *)
(***************************************************************************)
\* main up to the try block: os.makedirs(args.output_dir, exist_ok=True)
main ==
    /\ prog = AGL /\ pc = "main"
    /\ outputs' = outputs \cup makedirs
    /\ pc' = "parse_log_file"
    /\ UNCHANGED <<args, watch, flow, diag, line_num, records, warnings, df, dominant_gesture,
                   error, exit_code>>

\* parse_log_file up to the loop: the existence check and open()
parse_log_file ==
    /\ prog = AGL /\ pc = "parse_log_file"
    /\ IF ~exists
       THEN Fail("FileNotFoundError")
       ELSE pc' = "for_line" /\ UNCHANGED <<error, exit_code>>
    /\ UNCHANGED <<args, watch, flow, diag, line_num, records, warnings, df, dominant_gesture, outputs>>

\* one iteration of 'for line_num, line in enumerate(f, 1)'
parse_log_file_line ==
    /\ prog = AGL /\ pc = "for_line" /\ line_num < Len(file)
    /\ line_num' = line_num + 1
    /\ LET line  == file[line_num + 1]
           match == re_search(line)
       IN  IF ~HasMarker(line)
           THEN UNCHANGED <<records, warnings, pc, error, exit_code>>
           ELSE IF match.ok
           THEN IF ConvertOK(match.groupdict)
                THEN /\ records' = Append(records, ConvertRecord(match.groupdict))
                     /\ UNCHANGED <<warnings, pc, error, exit_code>>
                ELSE /\ Fail("ValueError_float")
                     /\ UNCHANGED <<records, warnings>>
           ELSE /\ warnings' = Append(warnings, line_num + 1)
                /\ UNCHANGED <<records, pc, error, exit_code>>
    /\ UNCHANGED <<args, watch, flow, diag, df, dominant_gesture, outputs>>

\* parse_log_file after the loop: 'if not records: raise', DataFrame(records)
parse_log_file_end ==
    /\ prog = AGL /\ pc = "for_line" /\ line_num = Len(file)
    /\ IF records = <<>>
       THEN Fail("ValueError_no_data") /\ UNCHANGED df
       ELSE df' = records /\ pc' = "add_derived_features"
            /\ UNCHANGED <<error, exit_code>>
    /\ UNCHANGED <<args, watch, flow, diag, line_num, records, warnings, dominant_gesture, outputs>>

\* add_derived_features(df, args.gt_gesture)
add_derived_features ==
    /\ prog = AGL /\ pc = "add_derived_features"
    /\ IF BinsUnique(df)
       THEN /\ df' = [i \in 1..Len(df) |-> DerivedRow(df[i], df, gt_gesture)]
            /\ pc' = "to_csv"
            /\ UNCHANGED <<error, exit_code>>
       ELSE Fail("ValueError_bins") /\ UNCHANGED df
    /\ UNCHANGED <<args, watch, flow, diag, line_num, records, warnings, dominant_gesture, outputs>>

\* df.to_csv(gesture_parsed.csv)
to_csv ==
    /\ prog = AGL /\ pc = "to_csv"
    /\ outputs' = outputs \cup {"gesture_parsed.csv"}
    /\ pc' = "print_and_save_stats"
    /\ UNCHANGED <<args, watch, flow, diag, line_num, records, warnings, df, dominant_gesture,
                   error, exit_code>>

\* print_and_save_stats, then main falls through to its end unless plots
\* are asked for
print_and_save_stats ==
    /\ prog = AGL /\ pc = "print_and_save_stats"
    /\ outputs' = outputs \cup {"stats_summary.md"}
    /\ IF save_plots
       THEN pc' = "plot_distributions" /\ UNCHANGED exit_code
       ELSE pc' = "exit" /\ exit_code' = 0
    /\ UNCHANGED <<args, watch, flow, diag, line_num, records, warnings, df, dominant_gesture, error>>

\* plot_distributions, then main returns
plot_distributions ==
    /\ prog = AGL /\ pc = "plot_distributions"
    /\ outputs' = outputs \cup {"plots"}
    /\ pc' = "exit"
    /\ exit_code' = 0
    /\ UNCHANGED <<args, watch, flow, diag, line_num, records, warnings, df, dominant_gesture, error>>

(***************************************************************************)
(* smart_analyzer.py                                                       *)
(***************************************************************************)
\* main: the existence check, then SmartGestureAnalyzer.__init__ (makedirs)
smart_main ==
    /\ prog = SMART /\ pc = "main"
    /\ IF ~exists
       THEN Fail("not_found") /\ UNCHANGED outputs
       ELSE /\ outputs' = outputs \cup makedirs
            /\ pc' = "for_line"
            /\ UNCHANGED <<error, exit_code>>
    /\ UNCHANGED <<args, watch, flow, diag, line_num, records, warnings, df, dominant_gesture>>

\* one iteration of 'for line in f' of _parse_log
smart_parse_log_line ==
    /\ prog = SMART /\ pc = "for_line" /\ line_num < Len(file)
    /\ line_num' = line_num + 1
    /\ LET line  == file[line_num + 1]
           match == re_search(line)
       IN  IF HasMarker(line) /\ match.ok
           THEN IF ConvertOK(match.groupdict)
                THEN /\ records' = Append(records, ConvertRecord(match.groupdict))
                     /\ UNCHANGED <<pc, error, exit_code>>
                ELSE Fail("ValueError_float") /\ UNCHANGED records
           ELSE UNCHANGED <<records, pc, error, exit_code>>
    /\ UNCHANGED <<args, watch, flow, diag, warnings, df, dominant_gesture, outputs>>

\* _parse_log after the loop
smart_parse_log_end ==
    /\ prog = SMART /\ pc = "for_line" /\ line_num = Len(file)
    /\ IF records = <<>>
       THEN Fail("ValueError_no_data") /\ UNCHANGED df
       ELSE df' = records /\ pc' = "_detect_dominant_gesture"
            /\ UNCHANGED <<error, exit_code>>
    /\ UNCHANGED <<args, watch, flow, diag, line_num, records, warnings, dominant_gesture, outputs>>

\* _detect_dominant_gesture: the label_norm column and the dominant gesture
detect_dominant_gesture ==
    /\ prog = SMART /\ pc = "_detect_dominant_gesture"
    /\ df' = [i \in 1..Len(df) |->
                 df[i] @@ [label_norm |-> label_norm(df[i]["raw_label"])]]
    /\ dominant_gesture' \in DominantChoices(df)
    /\ pc' = "_add_derived_features"
    /\ UNCHANGED <<args, watch, flow, diag, line_num, records, warnings, outputs, error, exit_code>>

\* _add_derived_features
smart_add_derived_features ==
    /\ prog = SMART /\ pc = "_add_derived_features"
    /\ IF BinsUnique(df)
       THEN /\ df' = [i \in 1..Len(df) |-> SmartDerivedRow(df[i], df, dominant_gesture)]
            /\ pc' = "_diagnose_issues"
            /\ UNCHANGED <<error, exit_code>>
       ELSE Fail("ValueError_bins") /\ UNCHANGED df
    /\ UNCHANGED <<args, watch, flow, diag, line_num, records, warnings, dominant_gesture, outputs>>

\* _diagnose_issues
diagnose_issues ==
    /\ prog = SMART /\ pc = "_diagnose_issues"
    /\ issues' = DiagnoseIssues(df, dominant_gesture)
    /\ pc' = "_generate_recommendations"
    /\ UNCHANGED <<args, watch, flow, recommendations, line_num, records, warnings, df,
                   dominant_gesture, outputs, error, exit_code>>

\* _generate_recommendations
generate_recommendations ==
    /\ prog = SMART /\ pc = "_generate_recommendations"
    /\ recommendations' = GenerateRecommendations(df, dominant_gesture, issues)
    /\ pc' = "_save_results"
    /\ UNCHANGED <<args, watch, flow, issues, line_num, records, warnings, df,
                   dominant_gesture, outputs, error, exit_code>>

\* the end of run(): the files of _save_results and _generate_html_report,
\* then main returns
smart_save_results ==
    /\ prog = SMART /\ pc = "_save_results"
    /\ outputs' = outputs \cup {"parsed_data.csv", "analysis_report.json",
                                "plots", "report.html"}
    /\ pc' = "exit"
    /\ exit_code' = 0
    /\ UNCHANGED <<args, watch, flow, diag, line_num, records, warnings, df, dominant_gesture, error>>

Next ==
    \/ main
    \/ parse_log_file
    \/ parse_log_file_line
    \/ parse_log_file_end
    \/ add_derived_features
    \/ to_csv
    \/ print_and_save_stats
    \/ plot_distributions
    \/ smart_main
    \/ smart_parse_log_line
    \/ smart_parse_log_end
    \/ detect_dominant_gesture
    \/ smart_add_derived_features
    \/ diagnose_issues
    \/ generate_recommendations
    \/ smart_save_results

Spec == Init /\ [][Next]_vars

(***************************************************************************)
(* Further specifications: the same program on other sets of files.        *)
(***************************************************************************)
\* runs without ground truth, with plots, into a new directory
PlainConfigs ==
    {c \in AglConfigs \cup SmartConfigs : c.gt = "None" /\ c.plots /\ ~c.dir}

\* the scenario line with one piece of the template taken away, in turn:
\* each of the ten tokens, the glyph, the last score, the value of lenIdx
GrammarLines ==
    {LineV, LineFist}
    \cup {DropTok(LineV, i) : i \in 1..10}
    \cup {[LineV EXCEPT !.glyph = FALSE],
          SetTok(LineV, 10, <<"5", "/", "1", "/", "0", "/", "-", "1">>),
          SetTok(LineV, 1, <<>>)}

InitGrammar == InitWith(SeqsUpTo(GrammarLines, MaxLines - 1), PlainConfigs)

SpecGrammar == InitGrammar /\ [][Next]_vars

\* the scenario line with every tuple of scores in -MaxScore .. MaxScore,
\* followed by a line of another scale
ScoreFiles ==
    {<<MkLine("Vshoushi", LensV, FeatsA, ScoreText(sc)), LineFist>> :
        sc \in [1..5 -> (0 - MaxScore)..MaxScore]}

InitScores == InitWith(ScoreFiles, PlainConfigs)

SpecScores == InitScores /\ [][Next]_vars

\* label texts: the keys of the tables, and texts that are no key
LabelTexts ==
    DOMAIN LABEL_MAP \cup {"", "abc", "V", "Fist", "Unknown", "vshoushi", "Vshoushi "}

LabelFiles ==
    {<<MkLine(l, LensV, FeatsA, ScoreText(<<5, 1, 0, -1, 2>>)), LineFist>> :
        l \in LabelTexts}

InitLabels ==
    InitWith(LabelFiles, {c \in AglConfigs \cup SmartConfigs : c.plots /\ ~c.dir})

SpecLabels == InitLabels /\ [][Next]_vars

\* batches of one gesture for the smart analyzer, and one run of
\* analyze_gesture_log.py
InitDiag ==
    \/ InitWith(RunFiles, {c \in PlainConfigs : c.prog = SMART})
    \/ InitWith({<<LineV, LineFist>>}, {c \in PlainConfigs : c.prog = AGL})

SpecDiag == InitDiag /\ [][Next]_vars

\* add_derived_features(df, gt_gesture) called on its own: the batch is what
\* extraction returns for a file of well-formed lines, the ground truth any
\* string, None included
GtStrings == GtChoices \cup {"", "Foo", "v", "Unknown", "V_label"}

WellFormedLines == {LineV, LineFist, LineZeroMid}

\* the DataFrame parse_log_file returns for a file of well-formed lines
Extracted(f) == [i \in 1..Len(f) |-> ConvertRecord(re_search(f[i]).groupdict)]

InitDerive ==
    /\ prog = AGL
    /\ gt_gesture \in GtStrings
    /\ save_plots = FALSE /\ dir_exists = TRUE /\ exists = TRUE
    /\ file \in SeqsUpTo(WellFormedLines, MaxLines) \ {<<>>}
    /\ pc = "add_derived_features"
    /\ line_num = Len(file)
    /\ records = Extracted(file)
    /\ warnings = <<>>
    /\ df = records
    /\ dominant_gesture = "None"
    /\ issues = <<>>
    /\ recommendations = <<>>
    /\ outputs = {}
    /\ error = "none"
    /\ exit_code = -1
    /\ NotWatching
    /\ NoWorkflow

NextDerive == add_derived_features

SpecDerive == InitDerive /\ [][NextDerive]_vars

\* batches of several labels: up to MaxCopies lines of each of three
\* gestures and of two label texts that normalise to Unknown, every kind at
\* its own distance or with its own middle finger length
LabelKinds ==
    << MkLine("Vshoushi", LensV, FeatsA, TopScore("V")),
       MkLine("quantou", LensNear, FeatsA, TopScore("V")),
       MkLine("OK shoushi", LensMid, FeatsA, TopScore("V")),
       MkLine("abc", LensMid, FeatsB, TopScore("Fist")),
       MkLine("weizhi", LensNear, FeatsB, TopScore("Fist")) >>

RECURSIVE Copies(_, _)
Copies(count, k) ==
    IF k > Len(LabelKinds) THEN <<>>
    ELSE Repeat(LabelKinds[k], count[k]) \o Copies(count, k + 1)

DetectFiles == {Copies(count, 1) : count \in [1..Len(LabelKinds) -> 0..MaxCopies]}

InitDetect == InitWith(DetectFiles, PlainConfigs)

SpecDetect == InitDetect /\ [][Next]_vars

(***************************************************************************)
(* tools/watch_live.py.  A terminal file is a sequence of lines, a line is   *)
(* its place in the file and whether it holds '[HandGestureDebug]'; a        *)
(* position in a file is counted in lines.                                   *)
(***************************************************************************)
\* the variables of an analysis run, which the watcher does not touch
run == <<args, diag, pc, line_num, records, warnings, df, dominant_gesture, outputs,
         error, exit_code>>

\* no analysis script in this run
NoRun(p) ==
    /\ prog = p /\ gt_gesture = "None" /\ save_plots = FALSE
    /\ exists = FALSE /\ dir_exists = TRUE /\ file = <<>>
    /\ pc = "main" /\ line_num = 0 /\ records = <<>> /\ warnings = <<>>
    /\ df = <<>> /\ dominant_gesture = "None" /\ issues = <<>>
    /\ recommendations = <<>> /\ outputs = {} /\ error = "none" /\ exit_code = -1

TermLine(n, m) == [n |-> n, marker |-> m]

\* lines 56-68, after the truncation test: f.seek(last_pos), then
\* 'for line in f' whose body ends with current_pos = f.tell().  The file is
\* opened in text mode, and a text file refuses tell() once its iterator has
\* been advanced (io.TextIOWrapper: OSError "telling position disabled by
\* next() call"): the first line read ends the read with OSError, caught at
\* line 69.  With no line after pos the body never runs: logs stays empty and
\* current_pos stays 0.
read_terminal(f, pos) ==
    IF pos < Len(f)
    THEN [raised |-> TRUE, logs |-> <<>>, current_pos |-> 0]
    ELSE [raised |-> FALSE, logs |-> <<>>, current_pos |-> 0]

\* line 89
AnalysisDue(count) == count >= AnalyzeEvery /\ count % AnalyzeEvery = 0

\* a file that holds one marker line less than an analysis takes
Backlog == [n \in 1..(AnalyzeEvery - 1) |-> TermLine(n, TRUE)]

\* the files followed: up to MaxTermLines lines, alone or after the backlog
Writable(f) ==
    \/ Len(f) < MaxTermLines
    \/ Len(f) >= Len(Backlog) /\ Len(f) < Len(Backlog) + MaxTermLines

\* the terminal program writes a line to one of the files
terminal_write ==
    /\ prog = WATCH /\ wpc = "while"
    /\ \E t \in DOMAIN terminals, m \in BOOLEAN :
          /\ Writable(terminals[t])
          /\ terminals' =
                [terminals EXCEPT ![t] = Append(@, TermLine(Len(@) + 1, m))]
          /\ latest' = t
    /\ UNCHANGED <<run, flow, TERMINAL, last_count, last_pos, LOG_OUT, read_errors,
                   analyses, wpc>>

\* one of the files is emptied
terminal_truncate ==
    /\ prog = WATCH /\ wpc = "while"
    /\ \E t \in DOMAIN terminals :
          /\ terminals[t] # <<>>
          /\ terminals' = [terminals EXCEPT ![t] = <<>>]
          /\ latest' = t
    /\ UNCHANGED <<run, flow, TERMINAL, last_count, last_pos, LOG_OUT, read_errors,
                   analyses, wpc>>

\* one turn of the 'while True' loop, lines 43-105; write_ok is whether the
\* append to LOG_OUT succeeds (lines 79-83)
watch_poll ==
    /\ prog = WATCH /\ wpc = "while"
    /\ read_errors < MaxReadErrors
    /\ \E write_ok \in BOOLEAN :
          LET f == terminals[latest]
              \* lines 45-49: the switch resets the bookmark
              pos == IF latest # TERMINAL THEN 0 ELSE last_pos
              \* lines 58-60: the file is shorter than the bookmark
              start == IF pos > Len(f) THEN 0 ELSE pos
              r == read_terminal(f, start)
          IN  /\ TERMINAL' = latest
              /\ IF r.raised
                 THEN \* lines 69-72: report, sleep, continue
                      /\ read_errors' = read_errors + 1
                      /\ last_pos' = start
                      /\ UNCHANGED <<last_count, LOG_OUT, analyses>>
                 ELSE IF r.logs # <<>>
                 THEN \* lines 74-103: the append is tried, its failure is
                      \* reported; counter and bookmark advance after the try
                      /\ LOG_OUT' = IF write_ok THEN LOG_OUT \o r.logs ELSE LOG_OUT
                      /\ last_count' = last_count + Len(r.logs)
                      /\ last_pos' = r.current_pos
                      /\ analyses' = IF AnalysisDue(last_count')
                                     THEN analyses + 1
                                     ELSE analyses
                      /\ UNCHANGED read_errors
                 ELSE /\ last_pos' = start
                      /\ UNCHANGED <<last_count, LOG_OUT, analyses, read_errors>>
    /\ UNCHANGED <<run, flow, terminals, latest, wpc>>

\* lines 107-123: Ctrl+C, and the final analysis of a non-empty output log
watch_interrupt ==
    /\ prog = WATCH /\ wpc = "while"
    /\ wpc' = "stopped"
    /\ analyses' = IF last_count > 0 /\ LOG_OUT # <<>> THEN analyses + 1 ELSE analyses
    /\ UNCHANGED <<run, flow, terminals, latest, TERMINAL, last_count, last_pos,
                   LOG_OUT, read_errors>>

\* lines 27-40: the latest file is chosen, counter and bookmark start at 0;
\* a file is empty or holds the backlog
InitWatch ==
    /\ NoRun(WATCH)
    /\ NoWorkflow
    /\ terminals \in [1..2 -> {<<>>, Backlog}]
    /\ latest \in 1..2
    /\ TERMINAL = latest
    /\ last_count = 0
    /\ last_pos = 0
    /\ LOG_OUT = <<>>
    /\ read_errors = 0
    /\ analyses = 0
    /\ wpc = "while"

NextWatch ==
    \/ terminal_write
    \/ terminal_truncate
    \/ watch_poll
    \/ watch_interrupt

SpecWatch == InitWatch /\ [][NextWatch]_vars

(***************************************************************************)
(* auto_workflow.py.  The monitored file is whether it exists and how many  *)
(* of its lines hold '[HandGestureDebug]'; the other lines are not counted. *)
(***************************************************************************)
\* how a run of smart_analyzer.py ends (lines 112-136): return code 0, another
\* return code, subprocess.TimeoutExpired, another exception
Outcomes == {"returned_0", "returned_nonzero", "TimeoutExpired", "Exception"}

\* the application writes a marker line to the file, creating it if need be
log_write ==
    /\ prog = FLOW /\ fpc = "while"
    /\ log_file.markers < MaxMarkers
    /\ log_file' = [exists |-> TRUE, markers |-> log_file.markers + 1]
    /\ fresh' = fresh + 1
    /\ UNCHANGED <<run, watch, threshold, last_line_count, analysis_count, completed,
                   progress, reported, fpc>>

\* the file is truncated, replaced by an empty one, or removed
log_truncate ==
    /\ prog = FLOW /\ fpc = "while"
    /\ log_file.exists /\ log_file.markers > 0
    /\ \E e \in BOOLEAN : log_file' = [exists |-> e, markers |-> 0]
    /\ fresh' = 0
    /\ UNCHANGED <<run, watch, threshold, last_line_count, analysis_count, completed,
                   progress, reported, fpc>>

\* _check_and_analyze with _run_analysis, lines 72-136: one turn of the loop
\* of run
check_and_analyze ==
    /\ prog = FLOW /\ fpc = "while"
    /\ analysis_count < MaxAnalyses
    /\ IF ~log_file.exists
       THEN UNCHANGED <<last_line_count, analysis_count, completed, fresh, progress>>
       ELSE LET current_count == log_file.markers
                new_lines == current_count - last_line_count
            IN  IF new_lines >= threshold
                THEN /\ \E outcome \in Outcomes :
                           completed' = IF outcome = "returned_0"
                                        THEN completed + 1
                                        ELSE completed
                     /\ last_line_count' = current_count
                     /\ analysis_count' = analysis_count + 1
                     /\ fresh' = 0
                     /\ UNCHANGED progress
                ELSE \* lines 91-97: the progress line
                     /\ progress' = <<new_lines>>
                     /\ UNCHANGED <<last_line_count, analysis_count, completed, fresh>>
    /\ UNCHANGED <<run, watch, log_file, threshold, reported, fpc>>

\* run, lines 68-70: Ctrl+C, the count of analyses is printed
flow_interrupt ==
    /\ prog = FLOW /\ fpc = "while"
    /\ fpc' = "stopped"
    /\ reported' = analysis_count
    /\ UNCHANGED <<run, watch, log_file, threshold, last_line_count, analysis_count,
                   completed, fresh, progress>>

\* __init__, lines 41-50, over a file that may hold marker lines already
InitFlow ==
    /\ NoRun(FLOW)
    /\ NotWatching
    /\ \E n \in 0..MaxMarkers :
          /\ log_file \in {[exists |-> n > 0, markers |-> n], [exists |-> TRUE, markers |-> n]}
          /\ fresh = n
    /\ threshold \in 1..MaxThreshold
    /\ last_line_count = 0
    /\ analysis_count = 0
    /\ completed = 0
    /\ progress = <<>>
    /\ reported = -1
    /\ fpc = "while"

NextFlow ==
    \/ log_write
    \/ log_truncate
    \/ check_and_analyze
    \/ flow_interrupt

SpecFlow == InitFlow /\ [][NextFlow]_vars

(***************************************************************************)
(* Properties.                                                             *)
(***************************************************************************)
\* the run is past the extraction loop: extraction returned or raised
ExtractionOver == pc \notin {"main", "parse_log_file", "for_line"}

\* candidate lines of the file that match the grammar, and that do not
MatchingLines == {i \in 1..Len(file) : file[i].marker /\ re_search(file[i]).ok}

FailingLines == {i \in 1..Len(file) : file[i].marker /\ ~re_search(file[i]).ok}

\* C1: a file with k >= 1 candidate lines that match the grammar and m that
\* do not yields exactly k samples and m parse-failure diagnostics, and
\* extraction does not abort the run.
C1_PartialParseLoss ==
    (exists /\ MatchingLines # {} /\ ExtractionOver) =>
        /\ Len(records) = Cardinality(MatchingLines)
        /\ Len(warnings) = Cardinality(FailingLines)
        /\ error \notin {"ValueError_float", "ValueError_no_data"}

\* C2: a line without the marker '[HandGestureDebug]' adds no sample and no
\* parse-failure diagnostic and leaves the failure count as it was.
C2_NoMarkerIgnored ==
    [][(pc = "for_line" /\ line_num < Len(file) /\ ~file[line_num + 1].marker)
        => (records' = records /\ warnings' = warnings /\ error' = error)]_vars

\* a line without the marker was the last one the loop consumed
C2_Witness == pc = "for_line" /\ line_num > 0 /\ ~file[line_num].marker

Fields15 == {"raw_label"} \cup NumericKeys

\* the first token of line l with key k
TokenOf(l, k) == l.toks[CHOOSE i \in 1..Len(l.toks) :
                     l.toks[i].key = k /\ \A j \in 1..(i - 1) : l.toks[j].key # k]

HasKey(l, k) == \E i \in 1..Len(l.toks) : l.toks[i].key = k

\* line l is a candidate that carries all 15 fields
CompleteLine(l) ==
    /\ l.marker /\ l.glyph
    /\ \A i \in 1..Len(NumKeys) :
          HasKey(l, NumKeys[i]) /\ TokenOf(l, NumKeys[i]).val # <<>>
    /\ HasKey(l, "score")
    /\ Cardinality({i \in 1..Len(TokenOf(l, "score").val) :
                       TokenOf(l, "score").val[i] = "/"}) >= 4

\* the 15 fields as they stand in the complete line l
FieldsOfLine(l) ==
    [k \in Fields15 |->
        IF k = "raw_label" THEN l.label
        ELSE IF k \in {NumKeys[i] : i \in 1..Len(NumKeys)} THEN Float(TokenOf(l, k).val)
        ELSE Float(ScoreCapture(TokenOf(l, "score").val, 5)
                       [CHOOSE i \in 1..5 : score_cols[i] = k])]

\* C3: every sample has all 15 fields, all read from one single line of the
\* file that carries them all; a candidate line lacking a field yields no
\* sample, and no field holds a value that line does not give.
C3_AllFieldsFromOneLine ==
    /\ \A i \in 1..Len(records) :
          /\ DOMAIN records[i] = Fields15
          /\ \E j \in 1..line_num :
                CompleteLine(file[j]) /\ records[i] = FieldsOfLine(file[j])
    /\ Len(records) <= Cardinality({j \in 1..line_num : CompleteLine(file[j])})

\* a candidate line lacking a field was consumed, and a sample exists
C3_Witness ==
    /\ records # <<>>
    /\ \E j \in 1..line_num : file[j].marker /\ ~CompleteLine(file[j])

\* extraction went through the whole file and returned or found no record
ZeroSamples ==
    exists /\ ExtractionOver /\ records = <<>> /\ error # "ValueError_float"

C5_NotFoundNoOutput ==
    (~exists /\ pc = "exit") =>
        /\ error \in {"FileNotFoundError", "not_found"}
        /\ line_num = 0 /\ records = <<>>
        /\ outputs = {}

\* C6: no extracted sample has a middle-finger length of zero.
C6_MalformedRejected ==
    \A i \in 1..Len(records) : records[i]["lenMid"] > 0

\* feature derivation has returned
Derived ==
    \/ pc \in {"to_csv", "print_and_save_stats", "plot_distributions",
               "_diagnose_issues", "_generate_recommendations", "_save_results"}
    \/ pc = "exit" /\ error = "none"

\* C7: after derivation every sample has a predicted label; it is one of the
\* five gestures, its score is maximal, and no gesture before it in the
\* order V, OK, Palm, Fist, Idx has that score.
C7_PredictedLabel ==
    \A i \in 1..Len(df) :
        /\ Derived => "pred_by_score" \in DOMAIN df[i]
        /\ "pred_by_score" \in DOMAIN df[i] =>
              /\ df[i]["pred_by_score"] \in GestureSet
              /\ LET p == CHOOSE p \in 1..5 : Gestures[p] = df[i]["pred_by_score"]
                 IN  /\ \A j \in 1..5 :
                           df[i][score_cols[j]] <= df[i][score_cols[p]]
                     /\ \A j \in 1..(p - 1) :
                           df[i][score_cols[j]] < df[i][score_cols[p]]

\* a sample whose maximum is shared by OK and Fist, with V below, predicted OK
C7_Witness ==
    \E i \in 1..Len(df) :
        /\ "pred_by_score" \in DOMAIN df[i]
        /\ df[i]["pred_by_score"] = "OK"
        /\ df[i]["score_ok"] = df[i]["score_fist"]
        /\ df[i]["score_v"] < df[i]["score_ok"]

NormValues == {"Fist", "Palm", "OK", "Idx", "V", "Unknown"}

LabelNormValues ==
    {"Fist_label", "Palm_label", "OK_label", "Idx_label", "V_label", "Unknown_label"}

\* the column holding the normalised label in this script
NormColumn == IF prog = AGL THEN "raw_label_norm" ELSE "label_norm"

\* label normalisation has run
Normalised == Derived \/ pc = "_add_derived_features"

C9_SingleLineScenario ==
    (exists /\ file = <<LineV>> /\ pc = "exit") =>
        /\ error = "none"
        /\ Len(df) = 1
        /\ df[1]["scale"] = Float(<<"0", ".", "0", "9", "7", "5">>)
        /\ df[1]["pred_by_score"] = "V"
        /\ df[1][NormColumn] = "V"

\* C10: every sample is far when scale < q33, mid when q33 <= scale < q66,
\* near when scale >= q66.
C10_DistanceGroup ==
    \A i \in 1..Len(df) :
        "scale_group" \in DOMAIN df[i] =>
            df[i]["scale_group"] =
                IF 100 * df[i]["scale"] < q33x100(df) THEN "far"
                ELSE IF 100 * df[i]["scale"] < q66x100(df) THEN "mid"
                ELSE "near"

\* the three distance groups
GroupSet == {groups[k] : k \in 1..Len(groups)}

\* C11: every non-empty batch is derived to the end, also when q33 = q66;
\* each sample is then in exactly one of far, mid, near, and a sample whose
\* scale is a cut point is in the lower of the two groups around it.
C11_DerivationCompletes ==
    /\ error # "ValueError_bins"
    /\ \A i \in 1..Len(df) :
          "scale_group" \in DOMAIN df[i] =>
              /\ df[i]["scale_group"] \in GroupSet
              /\ 100 * df[i]["scale"] = q33x100(df) => df[i]["scale_group"] = "far"
              /\ 100 * df[i]["scale"] = q66x100(df) => df[i]["scale_group"] = "mid"

\* the place of a group in the order far < mid < near
GroupRank(g) == CHOOSE k \in 1..Len(groups) : groups[k] = g

\* C12: within a batch the distance group is monotonic in scale: a sample
\* of smaller scale is never in a later group of far < mid < near, and
\* samples of equal scale are in the same group.
C12_GroupMonotonic ==
    \A i, j \in 1..Len(df) :
        ("scale_group" \in DOMAIN df[i] /\ "scale_group" \in DOMAIN df[j]) =>
            /\ df[i]["scale"] < df[j]["scale"] =>
                   GroupRank(df[i]["scale_group"]) <= GroupRank(df[j]["scale_group"])
            /\ df[i]["scale"] = df[j]["scale"] =>
                   df[i]["scale_group"] = df[j]["scale_group"]

\* a derived batch of the smart analyzer with three samples of growing
\* scale, the first two in one group and the third in a later one
C12_Witness ==
    /\ prog = SMART /\ Derived
    /\ \E i, j, k \in 1..Len(df) :
          /\ df[i]["scale"] < df[j]["scale"] /\ df[j]["scale"] < df[k]["scale"]
          /\ df[i]["scale_group"] = df[j]["scale_group"]
          /\ GroupRank(df[j]["scale_group"]) < GroupRank(df[k]["scale_group"])

\* C13: add_derived_features gives every sample the correctness fields
\* exactly when the ground truth is one of V, OK, Palm, Fist, Idx, with
\* is_correct_by_score = (predicted label = ground truth) and
\* is_correct_by_raw_label = (normalised label = the label expected for the
\* ground truth); without ground truth, and for any other string, no sample
\* has the fields.
C13_CorrectnessFields ==
    \A i \in 1..Len(df) :
        (prog = AGL /\ "scale_group" \in DOMAIN df[i]) =>
            IF gt_gesture \in GestureSet
            THEN /\ {"is_correct_by_score", "is_correct_by_raw_label"}
                        \subseteq DOMAIN df[i]
                 /\ df[i]["is_correct_by_score"] = (df[i]["pred_by_score"] = gt_gesture)
                 /\ df[i]["is_correct_by_raw_label"] =
                        (df[i]["raw_label_norm"] = expected_label(gt_gesture))
            ELSE {"is_correct_by_score", "is_correct_by_raw_label"}
                     \cap DOMAIN df[i] = {}

\* _detect_dominant_gesture has returned
Detected ==
    /\ prog = SMART
    /\ pc \in {"_add_derived_features", "_diagnose_issues",
               "_generate_recommendations", "_save_results"}
       \/ (pc = "exit" /\ dominant_gesture # "None")

\* how many of the labels are g
LabelCount(labels, g) == Cardinality({i \in 1..Len(labels) : labels[i] = g})

\* g is a most frequent label, on strictly more than 40% of the labels
Dominates(labels, g) ==
    /\ LabelCount(labels, g) > 0
    /\ \A h \in GestureSet : LabelCount(labels, h) <= LabelCount(labels, g)
    /\ 10 * LabelCount(labels, g) > 4 * Len(labels)

\* the normalised labels of the batch that are not Unknown
NonUnknown == SelectSeq([i \in 1..Len(df) |-> label_norm(df[i]["raw_label"])],
                        LAMBDA l : l # "Unknown")

\* C14: auto-detection returns a gesture G only if G is the most frequent
\* normalised label among the non-Unknown samples, on strictly more than
\* 40% of them; in every other case (40% or less, or no non-Unknown sample)
\* the batch is Mixed and no sample gets a correctness field.
C14_DominantOrMixed ==
    Detected =>
        /\ dominant_gesture \in GestureSet => Dominates(NonUnknown, dominant_gesture)
        /\ (~ \E g \in GestureSet : Dominates(NonUnknown, g)) =>
               /\ dominant_gesture = "Mixed"
               /\ \A i \in 1..Len(df) : "is_correct" \notin DOMAIN df[i]

\* _diagnose_issues has returned
Diagnosed ==
    /\ prog = SMART
    /\ pc \in {"_generate_recommendations", "_save_results"}
       \/ (pc = "exit" /\ error = "none")

\* _generate_recommendations has returned
Recommended ==
    /\ prog = SMART
    /\ pc = "_save_results" \/ (pc = "exit" /\ error = "none")

\* C15: for a Mixed batch diagnosis leaves exactly one issue, of severity
\* info (no accuracy and no feature issue), and recommendation generation
\* leaves the empty list.
C15_MixedBatch ==
    (prog = SMART /\ dominant_gesture = "Mixed") =>
        /\ Diagnosed => Len(issues) = 1 /\ issues[1]["severity"] = "info"
        /\ recommendations = <<>>

\* a Mixed batch with its derived samples, after recommendation generation
C15_Witness ==
    /\ Recommended /\ dominant_gesture = "Mixed"
    /\ Len(df) > 2
    /\ issues = <<MixedIssue>>

\* the issues of one type
IssuesOfType(type) == SelectSeq(issues, LAMBDA x : x["type"] = type)

\* the samples of the batch predicted as the dominant gesture
Correct == {i \in 1..Len(df) : df[i]["pred_by_score"] = dominant_gesture}

\* diagnosis has returned for a batch that is not Mixed and has the
\* correctness field
DiagnosedGesture ==
    /\ Diagnosed /\ dominant_gesture # "Mixed"
    /\ \A i \in 1..Len(df) : "is_correct" \in DOMAIN df[i]

\* C16: for a batch that is not Mixed and has correctness fields the issue
\* list holds a high-severity low-overall-accuracy issue, carrying the
\* accuracy, if and only if the fraction of correct samples is strictly
\* below 0.70, and never two of them (half of the samples correct: one
\* issue with value 0.50; accuracy exactly 0.70: none).
C16_LowOverallAccuracy ==
    DiagnosedGesture =>
        LET low == IssuesOfType("zhengti zhunquelv di") IN
        /\ Len(low) <= 1
        /\ Len(low) = 1 <=> 10 * Cardinality(Correct) < 7 * Len(df)
        /\ \A k \in 1..Len(low) :
              /\ low[k]["severity"] = "high"
              /\ low[k]["value"]["den"] > 0
              /\ low[k]["value"]["num"] * Len(df)
                     = Cardinality(Correct) * low[k]["value"]["den"]

\* a batch with half of its samples correct and the one issue, value 0.50
C16_Witness ==
    /\ DiagnosedGesture
    /\ 2 * Cardinality(Correct) = Len(df)
    /\ \E k \in 1..Len(issues) :
          /\ issues[k]["type"] = "zhengti zhunquelv di"
          /\ 2 * issues[k]["value"]["num"] = issues[k]["value"]["den"]

\* the samples of distance group g
Members(g) == {i \in 1..Len(df) : df[i]["scale_group"] = g}

\* the issues that name distance group g
IssuesOfGroup(g) ==
    SelectSeq(issues, LAMBDA x : "distance_group" \in DOMAIN x /\ x["distance_group"] = g)

\* C17: for each of far, mid, near a high-severity low-group-accuracy
\* issue naming the group and carrying its accuracy is in the list if and
\* only if the group has more than 5 samples and its accuracy is strictly
\* below 0.50; a group of 5 or fewer samples has none, also at 0%.
C17_LowGroupAccuracy ==
    DiagnosedGesture =>
        \A g \in GroupSet :
            LET low == IssuesOfGroup(g) IN
            /\ Len(low) <= 1
            /\ Len(low) = 1 <=>
                   /\ Cardinality(Members(g)) > 5
                   /\ 2 * Cardinality(Members(g) \cap Correct) < Cardinality(Members(g))
            /\ \A k \in 1..Len(low) :
                  /\ low[k]["severity"] = "high"
                  /\ low[k]["value"]["num"] * Cardinality(Members(g))
                         = Cardinality(Members(g) \cap Correct) * low[k]["value"]["den"]

\* a batch with the issue for one group, and another group of 5 samples,
\* none of them correct, without issue
C17_Witness ==
    /\ DiagnosedGesture
    /\ \E g, h \in GroupSet :
          /\ Len(IssuesOfGroup(g)) = 1
          /\ Cardinality(Members(h)) = 5
          /\ Members(h) \cap Correct = {}
          /\ Len(IssuesOfGroup(h)) = 0

\* the samples of the batch not predicted as the dominant gesture
Incorrect == (1..Len(df)) \ Correct

\* the sum of column feat over the samples in S
RECURSIVE FeatureSum(_, _)
FeatureSum(S, feat) ==
    IF S = {} THEN 0
    ELSE LET i == CHOOSE i \in S : TRUE
         IN  df[i][feat] + FeatureSum(S \ {i}, feat)

\* | a | for an integer a
Abs(a) == IF a < 0 THEN 0 - a ELSE a

\* the mean of feat over the samples predicted as the dominant gesture and
\* its mean over the incorrect samples differ by more than 30% of the
\* former; both sets have a sample
Drifts(feat) ==
    /\ Correct # {} /\ Incorrect # {}
    /\ 10 * Abs(FeatureSum(Correct, feat) * Cardinality(Incorrect)
                - FeatureSum(Incorrect, feat) * Cardinality(Correct))
           > 3 * FeatureSum(Correct, feat) * Cardinality(Incorrect)

\* the issues about feature feat
IssuesOfFeature(feat) ==
    SelectSeq(issues, LAMBDA x : x["severity"] = "medium" /\ x["metric"] = feat)

\* C18: a medium-severity feature issue is in the list for a feature of
\* gapIdxMid, gapThumbIdx, ratio_idx_mid, ratio_ring_mid exactly when its
\* mean over the samples predicted as the dominant gesture and its mean
\* over the incorrect samples differ by more than 30% of the former mean;
\* with no incorrect sample, or no sample predicted as the dominant
\* gesture, there is no feature issue.
C18_FeatureDrift ==
    Diagnosed =>
        /\ \A feat \in {key_features[k] : k \in 1..Len(key_features)} :
              /\ Len(IssuesOfFeature(feat)) = (IF Drifts(feat) THEN 1 ELSE 0)
              /\ \A k \in 1..Len(IssuesOfFeature(feat)) :
                    LET x == IssuesOfFeature(feat)[k] IN
                    /\ x["correct_mean"]["num"] * Cardinality(Correct)
                           = FeatureSum(Correct, feat) * x["correct_mean"]["den"]
                    /\ x["wrong_mean"]["num"] * Cardinality(Incorrect)
                           = FeatureSum(Incorrect, feat) * x["wrong_mean"]["den"]
        /\ \A k \in 1..Len(issues) :
              issues[k]["severity"] = "medium" =>
                  \E j \in 1..Len(key_features) : issues[k]["metric"] = key_features[j]

\* a batch with correct and incorrect samples, a feature issue for one
\* feature and none for another whose means differ
C18_Witness ==
    /\ Diagnosed
    /\ \E f, g \in {key_features[k] : k \in 1..Len(key_features)} :
          /\ Len(IssuesOfFeature(f)) = 1
          /\ Len(IssuesOfFeature(g)) = 0
          /\ FeatureSum(Correct, g) * Cardinality(Incorrect)
                 # FeatureSum(Incorrect, g) * Cardinality(Correct)

\* the recommendations that name a distance group
ThresholdRecs ==
    SelectSeq(recommendations, LAMBDA r : "distance_group" \in DOMAIN r)

\* the low-group-accuracy issues whose group has a correct sample
IssuesWithCorrect ==
    SelectSeq(issues, LAMBDA x : /\ "distance_group" \in DOMAIN x
                                 /\ Members(x["distance_group"]) \cap Correct # {})

\* C19: every low-group-accuracy issue for a group of far, mid, near with a
\* correct sample in the group yields exactly one threshold recommendation
\* naming the group and the dominant gesture, in the order of the issues.
C19_ThresholdPerGroupIssue ==
    (Recommended /\ DiagnosedGesture) =>
        /\ [k \in 1..Len(ThresholdRecs) |-> ThresholdRecs[k]["distance_group"]]
               = [k \in 1..Len(IssuesWithCorrect) |->
                      IssuesWithCorrect[k]["distance_group"]]
        /\ \A k \in 1..Len(ThresholdRecs) :
              ThresholdRecs[k]["gesture"] = dominant_gesture

\* C20 as stated: no recommendation rests on an empty correct subset: a
\* low-group-accuracy issue whose group has no correct sample yields none,
\* and the list is empty for a batch without any correct sample.
C20_NoRecommendationFromNothing ==
    Recommended =>
        /\ \A k \in 1..Len(ThresholdRecs) :
              Members(ThresholdRecs[k]["distance_group"]) \cap Correct # {}
        /\ Correct = {} => recommendations = <<>>

\* C20, amended: no threshold recommendation rests on an empty correct
\* subset: a low-group-accuracy issue whose group has no correct sample
\* yields none, and for a batch without any correct sample the list holds
\* no threshold recommendation, only the recalibration recommendation of
\* its low-overall-accuracy issue (no gesture, no group, no snippet).
C20_NoThresholdFromNothing ==
    Recommended =>
        /\ \A k \in 1..Len(ThresholdRecs) :
              Members(ThresholdRecs[k]["distance_group"]) \cap Correct # {}
        /\ Correct = {} =>
               /\ Len(recommendations) = Len(IssuesOfType("zhengti zhunquelv di"))
               /\ \A k \in 1..Len(recommendations) :
                     DOMAIN recommendations[k]
                         \cap {"gesture", "distance_group", "swift_code"} = {}

\* a batch with a low-group-accuracy issue for a group without correct
\* sample beside a group with correct samples, after recommendation
\* generation
C20_Witness ==
    /\ Recommended /\ DiagnosedGesture
    /\ Correct # {}
    /\ recommendations # <<>>
    /\ \E g \in GroupSet :
          Len(IssuesOfGroup(g)) = 1 /\ Members(g) \cap Correct = {}

\* the high-priority recommendations that name no distance group
RecalibrationRecs ==
    SelectSeq(recommendations,
              LAMBDA r : r["priority"] = "high" /\ "distance_group" \notin DOMAIN r)

\* C21: each low-overall-accuracy issue of the list yields exactly one
\* high-priority recalibration recommendation without gesture, distance
\* group and snippet, and no other issue yields one.
C21_RecalibrationPerOverallIssue ==
    Recommended =>
        /\ Len(RecalibrationRecs) = Len(IssuesOfType("zhengti zhunquelv di"))
        /\ \A k \in 1..Len(RecalibrationRecs) :
              /\ RecalibrationRecs[k]["category"] = "suanfa youhua"
              /\ DOMAIN RecalibrationRecs[k]
                     \cap {"gesture", "distance_group", "swift_code"} = {}
        /\ \A k \in 1..Len(recommendations) :
              recommendations[k]["category"] = "suanfa youhua" =>
                  recommendations[k]["priority"] = "high"

\* a batch with the overall issue, a group issue and feature issues, with
\* the one recalibration recommendation beside a threshold recommendation
C21_Witness ==
    /\ Recommended
    /\ Len(IssuesOfType("zhengti zhunquelv di")) = 1
    /\ Len(issues) > 2
    /\ Len(RecalibrationRecs) = 1
    /\ Len(recommendations) = 2

\* C22: when diagnosis raised no issue and the correctness field exists,
\* the recommendation list is exactly one low-priority recommendation to
\* collect edge cases if the overall accuracy is strictly above 0.85, and
\* empty if it is 0.85 or below.
C22_EdgeCaseRecommendation ==
    (Recommended /\ issues = <<>>
         /\ \A i \in 1..Len(df) : "is_correct" \in DOMAIN df[i]) =>
        IF 100 * Cardinality(Correct) > 85 * Len(df)
        THEN /\ Len(recommendations) = 1
             /\ recommendations[1]["priority"] = "low"
             /\ recommendations[1]["category"] = "xingneng youhua"
             /\ DOMAIN recommendations[1]
                    \cap {"gesture", "distance_group", "swift_code"} = {}
        ELSE recommendations = <<>>

\* a batch without issue, 18 of its 20 samples correct, with the one
\* low-priority recommendation
C22_Witness ==
    /\ Recommended /\ issues = <<>>
    /\ Cardinality(Correct) < Len(df)
    /\ 100 * Cardinality(Correct) > 85 * Len(df)
    /\ Len(recommendations) = 1
    /\ recommendations[1]["priority"] = "low"

\* C23: every recommendation of the list, whatever the dominant gesture and
\* the kind of recommendation, carries a priority of low, medium, high, a
\* category, a description and an action; only gesture, distance group
\* and snippets may be missing.
C23_RecommendationFields ==
    Recommended =>
        \A k \in 1..Len(recommendations) :
            /\ {"priority", "category", "description", "action"}
                   \subseteq DOMAIN recommendations[k]
            /\ recommendations[k]["priority"] \in {"low", "medium", "high"}

\* row r without the columns added after extraction
ExtractedFields(r) == [k \in Fields15 |-> r[k]]

\* C24: derivation, diagnosis and recommendation generation leave the 15
\* extracted fields of every sample as extraction returned them, and add,
\* remove and reorder no sample: at every stage the batch restricted to
\* the extracted fields is the batch extraction returned.
C24_ExtractedFieldsKept ==
    df # <<>> => [i \in 1..Len(df) |-> ExtractedFields(df[i])] = records

\* a batch of several samples of the smart analyzer, derived, diagnosed and
\* with a recommendation
C24_Witness ==
    /\ Recommended
    /\ Len(df) > 1
    /\ \A i \in 1..Len(df) : {"scale_group", "is_correct"} \subseteq DOMAIN df[i]
    /\ issues # <<>> /\ recommendations # <<>>

\* C25: every candidate line ends in exactly one of two outcomes, a sample
\* appended or a parse failure reported; a line that matches the grammar
\* with a numeric token that is no number is such a parse failure and does
\* not abort the run.
C25_CandidateLineOutcome ==
    [][(pc = "for_line" /\ line_num < Len(file) /\ file[line_num + 1].marker) =>
           /\ error' = "none"
           /\ \/ Len(records') = Len(records) + 1 /\ warnings' = warnings
              \/ records' = records /\ Len(warnings') = Len(warnings) + 1]_vars

\* the marker lines among the lines of f
MarkerLines(f) == SelectSeq(f, LAMBDA l : l.marker)

\* the output log holds the marker lines before the bookmark, each once
LoggedUpToBookmark ==
    /\ last_pos <= Len(terminals[TERMINAL])
    /\ LOG_OUT = MarkerLines(SubSeq(terminals[TERMINAL], 1, last_pos))

\* C26: a poll of the file watched before (no switch), whose marker lines before
\* the bookmark are in the output log once each, leaves in the output log the
\* marker lines of the whole file, once each and in order: none is appended
\* again, none is skipped.
C26_MarkerLinesAppendedOnce ==
    [][(watch_poll /\ latest = TERMINAL /\ LoggedUpToBookmark) =>
           LOG_OUT' = MarkerLines(terminals[TERMINAL])]_vars

\* the watcher has collected nothing: no line counted, appended or analysed,
\* the bookmark at the start of the file.  It holds at every state of
\* SpecWatch: a poll that finds a line ends in the read error, so the lines
\* 74-103 of the loop, which C27 and C28 are about, are never run.
CollectedNothing ==
    last_count = 0 /\ last_pos = 0 /\ LOG_OUT = <<>> /\ analyses = 0

AnalysisPerTwentyCounted == analyses >= last_count \div AnalyzeEvery

\* C28: last_count is the number of lines in the output log, and
\* the bookmark is behind no line that is not in it.
C28_CountedAreLogged ==
    /\ last_count = Len(LOG_OUT)
    /\ Len(MarkerLines(SubSeq(terminals[TERMINAL], 1, last_pos))) <= Len(LOG_OUT)

\* an analysis is triggered by this step
Triggered == analysis_count' = analysis_count + 1

\* the rule of a poll: the trigger test, and what a poll leaves in the
\* counters
PollRule ==
    /\ Triggered <=> log_file.markers - last_line_count >= threshold
    /\ Triggered => last_line_count' = log_file.markers
    /\ ~Triggered => last_line_count' = last_line_count /\ analysis_count' = analysis_count

\* C29: a poll of the file triggers an analysis exactly when the marker lines
\* of the file exceed last_line_count by threshold at least, a trigger sets
\* last_line_count to the number of marker lines, a poll without trigger
\* leaves last_line_count and analysis_count alone; and a poll that finds
\* threshold marker lines written since the last analysis triggers one,
\* whether or not the file was truncated or replaced before they were written.
C29_ThresholdTriggers ==
    [][(check_and_analyze /\ log_file.exists) =>
           /\ PollRule
           /\ fresh >= threshold => Triggered]_vars

\* C29 without its last part
PollRuleKept == [][(check_and_analyze /\ log_file.exists) => PollRule]_vars

\* C30: analysis_count is the number of runs of smart_analyzer.py that
\* returned 0, and so is the count printed at stop.
C30_CountsCompleted ==
    /\ analysis_count = completed
    /\ fpc = "stopped" => reported = completed

=============================================================================
